---- MODULE Spec2Model ----
(***************************************************************************)
(* Model of the Tracardi PostgreSQL connector plugin action                *)
(* (tracardi_postgresql_connector/plugin.py and model/postresql.py).       *)
(*                                                                         *)
(* plugin.py does not compile: the constructor (plugin.py:27-31) is a      *)
(* plain `def` that contains `await` (line 29), which Python rejects when  *)
(* it compiles the file (SyntaxError: 'await' outside async function).     *)
(* Importing the module therefore raises before any statement of it runs:  *)
(* the class is never defined, build is never entered, no instance         *)
(* exists, and run and close are never called.  What a run of the          *)
(* repository's code can do is modelled here: the failing import, and      *)
(* Connection.connect of model/postresql.py, which compiles by itself and  *)
(* awaits the driver (the driver is the environment: what it returns or    *)
(* raises is chosen nondeterministically, and connects may overlap at      *)
(* the await).                                                             *)
(*                                                                         *)
(* to_dict (plugin.py:42-56) is a function of its argument alone; it is    *)
(* modelled as an operator and applied to rows given as input in a         *)
(* specification of its own.                                               *)
(***************************************************************************)
EXTENDS Integers, Sequences, FiniteSets, TLC

VARIABLES
    instance,      \* "none": the host holds no action instance; "built": it holds one
    db,            \* self.db of the instance: NoHandle or a handle
    connectLog,    \* the keyword arguments of every asyncpg.connect call issued, in order
    pending,       \* the connect invocations that are awaiting the driver
    handles,       \* the handles the driver has handed out
    returned,      \* what the invocation that finished last returned: a handle, or NoHandle
    lastOp,        \* operation of the invocation that finished last: "none", "import", "connect"
    outcome,       \* "none", "ok", or the error it raised to its caller
    nops,          \* number of invocations started
    nret,          \* number of invocations finished
    lastId,        \* which invocation finished last: its rank among those started
    record,        \* input of the serializer (serializer specification)
    converted      \* <<to_dict(record)>> once computed, <<>> before

vars == <<instance, db, connectLog, pending, handles, returned, lastOp, outcome,
          nops, nret, lastId, record, converted>>

lifecycleVars == <<instance, db, connectLog, pending, handles, returned, lastOp, outcome,
                   nops, nret, lastId>>

(***************************************************************************)
(* Bounds                                                                  *)
(***************************************************************************)
MaxOps == 4

(***************************************************************************)
(* Natural numbers of any size: little-endian sequences of limbs in base   *)
(* Base, without high zero limbs (<<>> is 0).  They carry the coefficient  *)
(* of a Decimal and the mantissa of a double, which do not fit an integer  *)
(* of the model checker.  The operators split the limbs in halves to keep  *)
(* the depth of the recursion logarithmic.                                 *)
(***************************************************************************)
Base == 10000

\* the highest index in lo..hi of a non-zero limb, 0 if there is none
RECURSIVE TopLimb(_, _, _)
TopLimb(a, lo, hi) ==
    IF lo > hi THEN 0
    ELSE IF lo = hi THEN (IF a[lo] # 0 THEN lo ELSE 0)
    ELSE LET mid == (lo + hi) \div 2
             up  == TopLimb(a, mid + 1, hi)
         IN  IF up # 0 THEN up ELSE TopLimb(a, lo, mid)

BigNorm(a) == SubSeq(a, 1, TopLimb(a, 1, Len(a)))

RECURSIVE BigOfNat(_)
BigOfNat(n) == IF n = 0 THEN <<>> ELSE <<n % Base>> \o BigOfNat(n \div Base)

\* -1, 0, 1 as a < b, a = b, a > b on the limbs lo..hi, high limbs first
RECURSIVE BigCmpSeg(_, _, _, _)
BigCmpSeg(a, b, lo, hi) ==
    IF lo > hi THEN 0
    ELSE IF lo = hi
         THEN (IF a[lo] < b[lo] THEN -1 ELSE IF a[lo] > b[lo] THEN 1 ELSE 0)
    ELSE LET mid == (lo + hi) \div 2
             up  == BigCmpSeg(a, b, mid + 1, hi)
         IN  IF up # 0 THEN up ELSE BigCmpSeg(a, b, lo, mid)

BigCmp(a, b) ==
    IF Len(a) < Len(b) THEN -1
    ELSE IF Len(a) > Len(b) THEN 1
    ELSE BigCmpSeg(a, b, 1, Len(a))

Limb(a, i) == IF i <= Len(a) THEN a[i] ELSE 0

\* limbs lo..hi of a + b with the carry in; the carry out is c
RECURSIVE BigAddSeg(_, _, _, _, _)
BigAddSeg(a, b, lo, hi, cin) ==
    IF lo > hi THEN [out |-> <<>>, c |-> cin]
    ELSE IF lo = hi
         THEN LET s == Limb(a, lo) + Limb(b, lo) + cin
              IN  [out |-> <<s % Base>>, c |-> s \div Base]
    ELSE LET mid == (lo + hi) \div 2
             l   == BigAddSeg(a, b, lo, mid, cin)
             h   == BigAddSeg(a, b, mid + 1, hi, l.c)
         IN  [out |-> l.out \o h.out, c |-> h.c]

BigAdd(a, b) ==
    LET r == BigAddSeg(a, b, 1, IF Len(a) > Len(b) THEN Len(a) ELSE Len(b), 0)
    IN  IF r.c = 0 THEN r.out ELSE Append(r.out, r.c)

\* limbs lo..hi of a - b with the borrow in; the borrow out is c
RECURSIVE BigSubSeg(_, _, _, _, _)
BigSubSeg(a, b, lo, hi, cin) ==
    IF lo > hi THEN [out |-> <<>>, c |-> cin]
    ELSE IF lo = hi
         THEN LET s == a[lo] - Limb(b, lo) - cin
              IN  IF s < 0 THEN [out |-> <<s + Base>>, c |-> 1] ELSE [out |-> <<s>>, c |-> 0]
    ELSE LET mid == (lo + hi) \div 2
             l   == BigSubSeg(a, b, lo, mid, cin)
             h   == BigSubSeg(a, b, mid + 1, hi, l.c)
         IN  [out |-> l.out \o h.out, c |-> h.c]

\* a - b for a >= b
BigSub(a, b) == BigNorm(BigSubSeg(a, b, 1, Len(a), 0).out)

\* limbs lo..hi of a * k with the carry in, for 0 < k <= 2^17
RECURSIVE BigMulSeg(_, _, _, _, _)
BigMulSeg(a, k, lo, hi, cin) ==
    IF lo > hi THEN [out |-> <<>>, c |-> cin]
    ELSE IF lo = hi
         THEN LET p == a[lo] * k + cin
              IN  [out |-> <<p % Base>>, c |-> p \div Base]
    ELSE LET mid == (lo + hi) \div 2
             l   == BigMulSeg(a, k, lo, mid, cin)
             h   == BigMulSeg(a, k, mid + 1, hi, l.c)
         IN  [out |-> l.out \o h.out, c |-> h.c]

BigMulSmall(a, k) ==
    IF k = 0 THEN <<>>
    ELSE LET r == BigMulSeg(a, k, 1, Len(a), 0) IN r.out \o BigOfNat(r.c)

\* limbs lo..hi of a \div k, high limbs first, with the remainder in
RECURSIVE BigDivSeg(_, _, _, _, _)
BigDivSeg(a, k, lo, hi, rin) ==
    IF lo > hi THEN [out |-> <<>>, r |-> rin]
    ELSE IF lo = hi
         THEN LET cur == rin * Base + a[lo]
              IN  [out |-> <<cur \div k>>, r |-> cur % k]
    ELSE LET mid == (lo + hi) \div 2
             h   == BigDivSeg(a, k, mid + 1, hi, rin)
             l   == BigDivSeg(a, k, lo, mid, h.r)
         IN  [out |-> l.out \o h.out, r |-> l.r]

\* a \div k for 0 < k <= 2^17
BigDivSmall(a, k) == BigNorm(BigDivSeg(a, k, 1, Len(a), 0).out)

\* a * Base^n
BigShift(a, n) == IF a = <<>> THEN <<>> ELSE [i \in 1..n |-> 0] \o a

RECURSIVE Pow(_, _)
Pow(b, n) == IF n = 0 THEN 1 ELSE b * Pow(b, n - 1)

\* a * 10^n
BigMulPow10(a, n) == BigShift(BigMulSmall(a, Pow(10, n % 4)), n \div 4)

\* a * 2^n, by halves of n; the first half is computed before the second is
\* asked for
RECURSIVE BigMulPow2(_, _)
BigMulPow2(a, n) ==
    IF n <= 17 THEN BigMulSmall(a, Pow(2, n))
    ELSE LET half == BigMulPow2(a, n \div 2)
         IN  IF Len(half) >= 0 THEN BigMulPow2(half, n - (n \div 2)) ELSE <<>>

\* number of decimal digits of a (0 for 0)
NatDigits(n) == IF n < 10 THEN 1 ELSE IF n < 100 THEN 2 ELSE IF n < 1000 THEN 3 ELSE 4

BigDigits(a) == IF a = <<>> THEN 0 ELSE 4 * (Len(a) - 1) + NatDigits(a[Len(a)])

BigIsOdd(a) == a # <<>> /\ a[1] % 2 = 1

\* floor(a / d) and the remainder, for d > 0 and a < d * Base^n: one limb of
\* the quotient at a time, each found by bisection
RECURSIVE QuotLimb(_, _, _, _)
QuotLimb(r, d, lo, hi) ==
    IF lo = hi THEN lo
    ELSE LET mid == (lo + hi + 1) \div 2
         IN  IF BigCmp(BigMulSmall(d, mid), r) <= 0 THEN QuotLimb(r, d, mid, hi)
             ELSE QuotLimb(r, d, lo, mid - 1)

RECURSIVE BigDivModAt(_, _, _, _)
BigDivModAt(r, d, n, q) ==
    IF n = 0 THEN [quot |-> BigNorm(q), rem |-> r]
    ELSE LET ds   == BigShift(d, n - 1)
             t    == QuotLimb(r, ds, 0, Base - 1)
             rest == BigSub(r, BigMulSmall(ds, t))
         IN  IF Len(rest) >= 0 THEN BigDivModAt(rest, d, n - 1, <<t>> \o q)
             ELSE [quot |-> <<>>, rem |-> <<>>]

BigDivMod(a, d, n) == BigDivModAt(a, d, n, <<>>)

(***************************************************************************)
(* float(Decimal): the IEEE-754 double nearest to the decimal (ties to     *)
(* even), infinite beyond the range of a double, zero below it; NaN and    *)
(* the infinities of Decimal map to those of float.                        *)
(*   A double is [kind, sign, m, e]: "nan", "inf" or the finite value      *)
(*   (-1)^sign * m * 2^e with m odd (m = 0 and e = 0 for zero).            *)
(***************************************************************************)
Double(kind, sign, m, e) == [kind |-> kind, sign |-> sign, m |-> m, e |-> e]
DoubleNaN == Double("nan", 0, <<>>, 0)
DoubleInf(sign) == Double("inf", sign, <<>>, 0)
DoubleZero(sign) == Double("finite", sign, <<>>, 0)

Two53 == <<992, 5474, 1992, 9007>>

\* m * 2^e with the factors 2 of m moved into e, 2^k at a time
RECURSIVE StripTwos(_, _, _, _)
StripTwos(sign, m, e, k) ==
    IF k = 0 THEN Double("finite", sign, m, e)
    ELSE IF BigDivSeg(m, Pow(2, k), 1, Len(m), 0).r = 0
         THEN LET part == BigDivSmall(m, Pow(2, k))
              IN  IF Len(part) >= 0 THEN StripTwos(sign, part, e + k, k)
                  ELSE DoubleZero(sign)
    ELSE StripTwos(sign, m, e, k \div 2)

DoubleOdd(sign, m, e) == IF m = <<>> THEN DoubleZero(sign) ELSE StripTwos(sign, m, e, 16)

\* the least s >= s0 with num / (den * 2^s) < 2^53; den53 is den * 2^53
RECURSIVE ScaleDown(_, _, _, _)
ScaleDown(num, den, den53, s) ==
    IF BigCmp(num, den53) >= 0
    THEN LET den2   == BigMulSmall(den, 2)
             den532 == BigMulSmall(den53, 2)
         IN  IF Len(den2) >= 0 /\ Len(den532) >= 0
             THEN ScaleDown(num, den2, den532, s + 1)
             ELSE [d |-> den, s |-> s]
    ELSE [d |-> den, s |-> s]

\* round-half-even of a quotient with its remainder against the divisor
RoundHalfEven(qr, den) ==
    LET half == BigCmp(BigMulSmall(qr.rem, 2), den)
    IN  IF half > 0 \/ (half = 0 /\ BigIsOdd(qr.quot))
        THEN BigAdd(qr.quot, <<1>>) ELSE qr.quot

\* the double nearest to n0 / (d0 * 2^s0), for n0 / (d0 * 2^s0) >= 2^52 unless
\* s0 = -1074 (the exponent of the subnormals)
ScaledDouble(sign, n1, d1, s0) ==
    LET sc == ScaleDown(n1, d1, BigMulPow2(d1, 53), s0)
        q  == RoundHalfEven(BigDivMod(n1, sc.d, 4), sc.d)
    IN  IF sc.s > 971 \/ (sc.s = 971 /\ q = Two53) THEN DoubleInf(sign)
        ELSE DoubleOdd(sign, q, sc.s)

\* the double nearest to n0 / d0, where 10^adj <= n0 / d0 < 10^(adj + 1):
\* low is at most floor(log2(n0 / d0)) - 52
NearestDouble(sign, n0, d0, adj) ==
    LET low == ((adj * 33219) \div 10000) - 1 - 52
        s0  == IF low < -1074 THEN -1074 ELSE low
    IN  ScaledDouble(sign,
                     IF s0 < 0 THEN BigMulPow2(n0, -s0) ELSE n0,
                     IF s0 > 0 THEN BigMulPow2(d0, s0) ELSE d0,
                     s0)

float(d) ==
    CASE d.kind = "NaN"      -> DoubleNaN
      [] d.kind = "Infinity" -> DoubleInf(d.sign)
      [] d.kind = "finite"   ->
            LET adj == BigDigits(d.coef) + d.exp - 1
            IN  IF d.coef = <<>> THEN DoubleZero(d.sign)
                ELSE IF adj > 308 THEN DoubleInf(d.sign)
                ELSE IF adj < -324 THEN DoubleZero(d.sign)
                ELSE IF d.exp >= 0
                     THEN NearestDouble(d.sign, BigMulPow10(d.coef, d.exp), <<1>>, adj)
                     ELSE NearestDouble(d.sign, d.coef, BigMulPow10(<<1>>, -d.exp), adj)

(***************************************************************************)
(* Python values: the pair of the type and what the value holds            *)
(***************************************************************************)
type(obj) == obj[1]
held(obj) == obj[2]

PyNone == <<"NoneType", 0>>
PyBool(b) == <<"bool", b>>
PyInt(n) == <<"int", n>>
PyStr(s) == <<"str", s>>
PyFloat(x) == <<"float", x>>
PyDecimal(sign, coef, exp) ==
    <<"Decimal", [kind |-> "finite", sign |-> sign, coef |-> coef, exp |-> exp]>>
PyDecimalNaN == <<"Decimal", [kind |-> "NaN", sign |-> 0, coef |-> <<>>, exp |-> 0]>>
PyDecimalInf(sign) ==
    <<"Decimal", [kind |-> "Infinity", sign |-> sign, coef |-> <<>>, exp |-> 0]>>
PyDate(y, m, d) == <<"date", [y |-> y, mo |-> m, d |-> d]>>
\* aware: the value has a tzinfo; off: its UTC offset in minutes
PyTime(h, mi, s, us, aware, off) ==
    <<"time", [h |-> h, mi |-> mi, s |-> s, us |-> us, aware |-> aware, off |-> off]>>
PyDateTime(y, m, d, h, mi, s, us, aware, off) ==
    <<"datetime",
      [y |-> y, mo |-> m, d |-> d, h |-> h, mi |-> mi, s |-> s, us |-> us,
       aware |-> aware, off |-> off]>>
\* normalised as timedelta keeps it: 0 <= seconds < 86400, 0 <= us < 10^6
PyTimedelta(days, seconds, us) ==
    <<"timedelta", [days |-> days, seconds |-> seconds, us |-> us]>>
PyUUID(s) == <<"UUID", s>>
\* bytes: the sequence of its byte values
PyBytes(bs) == <<"bytes", bs>>
\* any other object, given by the text its __str__ returns
PyObject(text) == <<"object", text>>
PyList(items) == <<"list", items>>
PyTuple(items) == <<"tuple", items>>
\* a dict with string keys
PyDict(items) == <<"dict", items>>

\* the types json.dumps encodes without calling `default`
JsonNative == {"NoneType", "bool", "int", "str", "float", "list", "tuple", "dict"}

(***************************************************************************)
(* datetime.isoformat / date.isoformat / time.isoformat and str()          *)
(***************************************************************************)
pad2(n) == IF n < 10 THEN "0" \o ToString(n) ELSE ToString(n)

pad4(n) ==
    IF n < 10 THEN "000" \o ToString(n)
    ELSE IF n < 100 THEN "00" \o ToString(n)
    ELSE IF n < 1000 THEN "0" \o ToString(n)
    ELSE ToString(n)

pad6(n) ==
    IF n < 10 THEN "00000" \o ToString(n)
    ELSE IF n < 100 THEN "0000" \o ToString(n)
    ELSE IF n < 1000 THEN "000" \o ToString(n)
    ELSE IF n < 10000 THEN "00" \o ToString(n)
    ELSE IF n < 100000 THEN "0" \o ToString(n)
    ELSE ToString(n)

\* YYYY-MM-DD
date_isoformat(d) == pad4(d.y) \o "-" \o pad2(d.mo) \o "-" \o pad2(d.d)

\* +HH:MM / -HH:MM for an aware value
utc_offset(x) ==
    IF ~x.aware THEN ""
    ELSE LET a == IF x.off < 0 THEN -x.off ELSE x.off
         IN  (IF x.off < 0 THEN "-" ELSE "+") \o pad2(a \div 60) \o ":" \o pad2(a % 60)

\* HH:MM:SS, then .ffffff when the microsecond is not 0
clock_isoformat(x) ==
    pad2(x.h) \o ":" \o pad2(x.mi) \o ":" \o pad2(x.s)
       \o (IF x.us # 0 THEN "." \o pad6(x.us) ELSE "")

time_isoformat(x) == clock_isoformat(x) \o utc_offset(x)

datetime_isoformat(x, sep) ==
    date_isoformat(x) \o sep \o clock_isoformat(x) \o utc_offset(x)

isoformat(obj) ==
    IF type(obj) = "datetime" THEN datetime_isoformat(held(obj), "T") ELSE date_isoformat(held(obj))

\* timedelta.__str__: [D day[s], ]H:MM:SS[.ffffff]
timedelta_str(x) ==
    (IF x.days # 0
     THEN ToString(x.days) \o " day" \o (IF x.days \in {1, -1} THEN "" ELSE "s") \o ", "
     ELSE "")
       \o ToString(x.seconds \div 3600) \o ":" \o pad2((x.seconds \div 60) % 60)
       \o ":" \o pad2(x.seconds % 60)
       \o (IF x.us # 0 THEN "." \o pad6(x.us) ELSE "")

\* chr(96), the backquote: a string literal of this notation cannot hold it
\* alone, so it is taken out of the two-character literal that can
Backquote == SubSeq("`'", 1, 1)

\* the printable ASCII characters, from 32 (space) to 126 (~)
Ascii ==
    << " ", "!", "\"", "#", "$", "%", "&", "'", "(", ")", "*", "+", ",", "-", ".", "/",
       "0", "1", "2", "3", "4", "5", "6", "7", "8", "9", ":", ";", "<", "=", ">", "?",
       "@", "A", "B", "C", "D", "E", "F", "G", "H", "I", "J", "K", "L", "M", "N", "O",
       "P", "Q", "R", "S", "T", "U", "V", "W", "X", "Y", "Z", "[", "\\", "]", "^", "_",
       Backquote,
       "a", "b", "c", "d", "e", "f", "g", "h", "i", "j", "k", "l", "m", "n", "o",
       "p", "q", "r", "s", "t", "u", "v", "w", "x", "y", "z", "{", "|", "}", "~" >>

\* the character of code c, 32 <= c <= 126
Chr(c) == Ascii[c - 31]

HexDigit(n) == IF n < 10 THEN ToString(n) ELSE Chr(n - 10 + 97)

\* one byte inside repr(bytes) delimited by the quote character `quote`
byte_repr(c, quote) ==
    IF c = quote \/ c = 92 THEN "\\" \o Chr(c)
    ELSE IF c = 9 THEN "\\t"
    ELSE IF c = 10 THEN "\\n"
    ELSE IF c = 13 THEN "\\r"
    ELSE IF c < 32 \/ c >= 127 THEN "\\x" \o HexDigit(c \div 16) \o HexDigit(c % 16)
    ELSE Chr(c)

RECURSIVE bytes_body(_, _, _)
bytes_body(bs, i, quote) ==
    IF i > Len(bs) THEN "" ELSE byte_repr(bs[i], quote) \o bytes_body(bs, i + 1, quote)

\* repr(bytes): b'...', or b"..." when the bytes hold ' and no "
bytes_repr(bs) ==
    LET has(c) == \E i \in 1..Len(bs) : bs[i] = c
        quote  == IF has(39) /\ ~has(34) THEN 34 ELSE 39
    IN  "b" \o Chr(quote) \o bytes_body(bs, 1, quote) \o Chr(quote)

\* str(obj) for the types that are not JSON-native: datetime.__str__ is
\* isoformat(sep=' '), date and time print their isoformat, bytes its repr
str(obj) ==
    CASE type(obj) = "datetime"  -> datetime_isoformat(held(obj), " ")
      [] type(obj) = "date"      -> date_isoformat(held(obj))
      [] type(obj) = "time"      -> time_isoformat(held(obj))
      [] type(obj) = "timedelta" -> timedelta_str(held(obj))
      [] type(obj) = "bytes"     -> bytes_repr(held(obj))
      [] type(obj) \in {"UUID", "object"} -> held(obj)

(***************************************************************************)
(* to_dict: json.loads(json.dumps(dict(record), default=json_default))     *)
(***************************************************************************)
json_default_nodate(obj) ==
    IF type(obj) = "Decimal" THEN PyFloat(float(held(obj)))
    ELSE PyStr(str(obj))

json_default(obj) ==
    IF type(obj) \in {"datetime", "date"} THEN PyStr(isoformat(obj))
    ELSE IF type(obj) = "Decimal" THEN PyFloat(float(held(obj)))
    ELSE PyStr(str(obj))

\* JSON text of a float: NaN, Infinity, -Infinity or its repr
encode_float(x) ==
    CASE x.kind = "nan" -> [j |-> "literal", v |-> "NaN"]
      [] x.kind = "inf" -> [j |-> "literal", v |-> IF x.sign = 1 THEN "-Infinity" ELSE "Infinity"]
      [] x.kind = "finite" -> [j |-> "number", v |-> [frac |-> TRUE, int |-> 0, dbl |-> x]]

\* json.dumps of one value: a literal, a number (with or without a fraction
\* part), a string, an array or an object; `default` is called for a value,
\* at any depth, whose type the encoder does not know
RECURSIVE dumps_value(_)
dumps_value(obj) ==
    CASE type(obj) = "NoneType" -> [j |-> "literal", v |-> "null"]
      [] type(obj) = "bool"     -> [j |-> "literal", v |-> IF held(obj) THEN "true" ELSE "false"]
      [] type(obj) = "int"      -> [j |-> "number",
                                v |-> [frac |-> FALSE, int |-> held(obj), dbl |-> DoubleZero(0)]]
      [] type(obj) = "float"    -> encode_float(held(obj))
      [] type(obj) = "str"      -> [j |-> "string", v |-> held(obj)]
      [] type(obj) \in {"list", "tuple"} ->
            [j |-> "array", v |-> [i \in 1..Len(held(obj)) |-> dumps_value(held(obj)[i])]]
      [] type(obj) = "dict"     ->
            [j |-> "object", v |-> [k \in DOMAIN held(obj) |-> dumps_value(held(obj)[k])]]
      [] type(obj) \notin JsonNative -> dumps_value(json_default(obj))

dumps(d) == [k \in DOMAIN d |-> dumps_value(d[k])]

\* json.loads of one token: a number without fraction part is an int, an
\* array a list, an object a dict
RECURSIVE decode(_)
decode(tok) ==
    CASE tok.j = "literal" /\ tok.v = "null"      -> PyNone
      [] tok.j = "literal" /\ tok.v = "true"      -> PyBool(TRUE)
      [] tok.j = "literal" /\ tok.v = "false"     -> PyBool(FALSE)
      [] tok.j = "literal" /\ tok.v = "NaN"       -> PyFloat(DoubleNaN)
      [] tok.j = "literal" /\ tok.v = "Infinity"  -> PyFloat(DoubleInf(0))
      [] tok.j = "literal" /\ tok.v = "-Infinity" -> PyFloat(DoubleInf(1))
      [] tok.j = "number" /\ ~tok.v.frac          -> PyInt(tok.v.int)
      [] tok.j = "number" /\ tok.v.frac           -> PyFloat(tok.v.dbl)
      [] tok.j = "string"                         -> PyStr(tok.v)
      [] tok.j = "array"  -> PyList([i \in 1..Len(tok.v) |-> decode(tok.v[i])])
      [] tok.j = "object" -> PyDict([k \in DOMAIN tok.v |-> decode(tok.v[k])])

loads(doc) == [k \in DOMAIN doc |-> decode(doc[k])]

to_dict(rec) == loads(dumps(rec))

(***************************************************************************)
(* Inputs                                                                  *)
(***************************************************************************)
Columns == {"id", "created", "amount"}

\* 19.99, 1.50, 0.00, -30, 1E+400, 1E-400, 1.234567891E-320 (subnormal as a
\* double), a coefficient of 30 digits, -0, NaN, -Infinity
Decimals ==
    { PyDecimal(0, <<1999>>, -2), PyDecimal(0, <<150>>, -2), PyDecimal(0, <<>>, -2),
      PyDecimal(1, <<30>>, 0), PyDecimal(0, <<1>>, 400), PyDecimal(0, <<1>>, -400),
      PyDecimal(0, <<7891, 3456, 12>>, -329),
      PyDecimal(0, <<7890, 3456, 9012, 5678, 1234, 7890, 3456, 12>>, 0),
      PyDecimal(1, <<>>, 0), PyDecimalNaN, PyDecimalInf(1) }

\* 1.5, 0.0, -0.0, nan, inf
Floats ==
    { PyFloat(Double("finite", 0, <<3>>, -1)), PyFloat(DoubleZero(0)), PyFloat(DoubleZero(1)),
      PyFloat(DoubleNaN), PyFloat(DoubleInf(0)) }

Scalars ==
    { PyNone, PyBool(TRUE), PyBool(FALSE), PyInt(1), PyInt(-7), PyStr("a"), PyStr("") }
      \cup Floats \cup Decimals \cup
    { PyDate(2023, 1, 1), PyDate(987, 12, 31),
      PyDateTime(2023, 1, 1, 0, 0, 0, 0, FALSE, 0),
      PyDateTime(2023, 1, 1, 9, 5, 7, 1500, FALSE, 0),
      PyDateTime(2024, 2, 29, 23, 59, 59, 0, TRUE, 0),
      PyDateTime(2024, 2, 29, 23, 59, 59, 0, TRUE, -330),
      PyTime(12, 30, 0, 0, FALSE, 0), PyTime(1, 2, 3, 40, TRUE, 60),
      PyTimedelta(0, 3723, 0), PyTimedelta(-1, 86399, 500000), PyTimedelta(2, 0, 0),
      PyUUID("6f1c"), PyObject("[1,5)"),
      \* b'ab', b"a'b", b'a\\b', b'a\'b"c', b'\x00\t\xff', and three with the
      \* byte 96: one backquote, _ backquote a, a backquote-quoted SQL name
      PyBytes(<<97, 98>>), PyBytes(<<97, 39, 98>>), PyBytes(<<97, 92, 98>>),
      PyBytes(<<97, 39, 98, 34, 99>>), PyBytes(<<0, 9, 255>>),
      PyBytes(<<96>>), PyBytes(<<95, 96, 97>>), PyBytes(<<95, 95, 97>>),
      PyBytes(<<96, 97, 96, 32, 70, 82, 79, 77, 32, 116>>) }

Containers ==
    { PyList(<<>>), PyList(<<PyInt(1), PyInt(2)>>), PyTuple(<<PyInt(1), PyInt(2)>>),
      PyList(<<PyDecimal(0, <<150>>, -2)>>),
      PyList(<<PyList(<<PyDate(2023, 1, 1)>>), PyNone>>),
      PyDict([a |-> PyInt(1)]),
      PyDict([a |-> PyTuple(<<PyUUID("6f1c")>>), b |-> PyStr("x")]) }

Values == Scalars \cup Containers

\* the values of the example row of the specification and a few more
CoreValues ==
    { PyInt(1), PyDateTime(2023, 1, 1, 0, 0, 0, 0, FALSE, 0), PyDecimal(0, <<1999>>, -2),
      PyUUID("6f1c"), PyNone, PyTuple(<<PyInt(1), PyInt(2)>>) }

\* a row: column name -> native value; any value in a row of one column,
\* the core values in rows of up to three columns
Rows ==
    UNION { [cols -> Values] : cols \in { c \in SUBSET Columns : Cardinality(c) = 1 } }
      \cup UNION { [cols -> CoreValues] : cols \in SUBSET Columns }


(***************************************************************************)
(* Connection descriptors (model/postresql.py)                             *)
(***************************************************************************)
DefaultHost == "localhost"
DefaultPort == 5439

\* the credentials a caller builds a Connection from: with the host and
\* the port, with the host only, with neither
Credentials ==
    { [database |-> "shop", user |-> "app", password |-> "s3cret", host |-> "pg", port |-> 5432],
      [database |-> "shop", user |-> "app", password |-> "s3cret", host |-> "pg"],
      [database |-> "logs", user |-> "ro", password |-> ""] }

\* Connection(**fields): host and port take their defaults when not given
Connection(fields) ==
    [database |-> fields.database,
     user     |-> fields.user,
     password |-> fields.password,
     host     |-> IF "host" \in DOMAIN fields THEN fields.host ELSE DefaultHost,
     port     |-> IF "port" \in DOMAIN fields THEN fields.port ELSE DefaultPort]

Connections == { Connection(fields) : fields \in Credentials }

NoHandle == 0

(***************************************************************************)
(* The environment: the database driver                                    *)
(***************************************************************************)
\* asyncpg.connect(...): a handle, or an error
DriverConnect == {"ok", "error"}

\* a connect invocation that is suspended in its await
Task(id, connection) == [id |-> id, connection |-> connection]

(***************************************************************************)
(* Initial state: nothing imported, nothing connected, no instance         *)
(***************************************************************************)
Idle ==
    /\ connectLog = <<>>
    /\ pending = {}
    /\ handles = {}
    /\ returned = NoHandle
    /\ lastOp = "none"
    /\ outcome = "none"
    /\ nops = 0
    /\ nret = 0
    /\ lastId = 0

NoInstance ==
    /\ instance = "none"
    /\ db = NoHandle

Init ==
    /\ Idle
    /\ NoInstance
    /\ record = <<>>
    /\ converted = <<>>

(***************************************************************************)
(* Importing the plugin module                                             *)
(***************************************************************************)
\* import tracardi_postgresql_connector.plugin: the file is compiled
\* first, and the `await` in the plain def __init__ is a SyntaxError.  No
\* statement of the module runs: validate, the class, build, run, close
\* and register are not defined, and a later import fails the same way
import_plugin ==
    /\ nops < MaxOps
    /\ nops' = nops + 1
    /\ nret' = nret + 1
    /\ lastId' = nops + 1
    /\ lastOp' = "import"
    /\ outcome' = "SyntaxError"
    /\ returned' = NoHandle
    /\ UNCHANGED <<instance, db, connectLog, pending, handles, record, converted>>

(***************************************************************************)
(* Connection.connect                                                      *)
(***************************************************************************)
\* return await asyncpg.connect(database=..., user=..., password=...,
\* host=..., port=...): the call is issued with the five fields
connect_call(self) ==
    /\ nops < MaxOps
    /\ nops' = nops + 1
    /\ connectLog' = Append(connectLog,
                            [database |-> self.database, user |-> self.user,
                             password |-> self.password, host |-> self.host,
                             port |-> self.port])
    /\ pending' = pending \cup {Task(nops + 1, self)}
    /\ UNCHANGED <<instance, db, handles, returned, lastOp, outcome, nret, lastId,
                   record, converted>>

\* the driver answers: the handle is returned to the caller, or the
\* driver's error leaves connect
connect_return(task, cr) ==
    /\ task \in pending
    /\ pending' = pending \ {task}
    /\ nret' = nret + 1
    /\ lastId' = task.id
    /\ lastOp' = "connect"
    /\ IF cr = "ok"
       THEN /\ outcome' = "ok"
            /\ handles' = handles \cup {task.id}
            /\ returned' = task.id
       ELSE /\ outcome' = "ConnectionError"
            /\ returned' = NoHandle
            /\ UNCHANGED handles
    /\ UNCHANGED <<instance, db, connectLog, nops, record, converted>>

(***************************************************************************)
(* Specification of the program                                            *)
(***************************************************************************)
ImportPlugin == import_plugin

ConnectCall == \E self \in Connections : connect_call(self)

ConnectReturn == \E task \in pending, cr \in DriverConnect : connect_return(task, cr)

Next ==
    \/ ImportPlugin
    \/ ConnectCall
    \/ ConnectReturn

Spec == Init /\ [][Next]_vars

(***************************************************************************)
(* Specification of the serializer: to_dict applied to any row             *)
(***************************************************************************)
InitSer ==
    /\ Idle
    /\ NoInstance
    /\ record \in Rows
    /\ converted = <<>>

Serialize ==
    /\ converted = <<>>
    /\ converted' = << to_dict(record) >>
    /\ UNCHANGED record
    /\ UNCHANGED lifecycleVars

NextSer == Serialize

SpecSer == InitSer /\ [][NextSer]_vars

(***************************************************************************)
(* C6, as amended: the serializer keeps the keys of the row and converts   *)
(* each value by the first matching rule: timestamp or date -> ISO-8601    *)
(* string, decimal -> float(d), list or tuple -> the list of its converted *)
(* elements, mapping with string keys -> the mapping of its converted      *)
(* values, other non-JSON value -> str(value), string, number, boolean or  *)
(* null unchanged.                                                         *)
(***************************************************************************)
RECURSIVE Expected(_)
Expected(val) ==
    CASE type(val) = "datetime" ->
            PyStr(date_isoformat(held(val)) \o "T" \o clock_isoformat(held(val)) \o utc_offset(held(val)))
      [] type(val) = "date"     -> PyStr(date_isoformat(held(val)))
      [] type(val) = "Decimal"  -> <<"float", float(held(val))>>
      [] type(val) \in {"NoneType", "bool", "int", "str", "float"} -> val
      [] type(val) \in {"list", "tuple"} ->
            <<"list", [i \in 1..Len(held(val)) |-> Expected(held(val)[i])]>>
      [] type(val) = "dict" ->
            <<"dict", [k \in DOMAIN held(val) |-> Expected(held(val)[k])]>>
      [] OTHER              -> PyStr(str(val))

C6_SerializerRules ==
    converted # <<>> =>
        /\ DOMAIN converted[1] = DOMAIN record
        /\ \A k \in DOMAIN record : converted[1][k] = Expected(record[k])

C6_Witness ==
    /\ converted # <<>>
    /\ DOMAIN record = Columns
    /\ type(record.created) = "datetime"
    /\ type(record.amount) = "Decimal"
    /\ type(record.id) = "tuple"

(***************************************************************************)
(* C6, as claimed: with the four rules only, a value that is none of       *)
(* timestamp, date, decimal, string, number, boolean or null comes out     *)
(* either as str(value) (a string) or unchanged.                           *)
(***************************************************************************)
C6_FourRulesOnly ==
    converted # <<>> =>
        /\ DOMAIN converted[1] = DOMAIN record
        /\ \A k \in DOMAIN record :
              IF type(record[k]) \in {"list", "tuple", "dict"}
              THEN converted[1][k] = record[k] \/ type(converted[1][k]) = "str"
              ELSE converted[1][k] = Expected(record[k])

====
